---- MODULE Spec2Model ----
(***************************************************************************)
(* Model of pystm32ai/stm32ai.py: a wrapper that locates or installs the   *)
(* stedgeai executable, invokes it in a scratch directory, reads its JSON  *)
(* report or copies the library it built.                                  *)
(*                                                                         *)
(* One wrapper process makes calls one after the other.  A call is cut at  *)
(* the points where it blocks on the outside world (the HTTP request, the  *)
(* archive extraction, the child process); what the outside world answers  *)
(* is a nondeterministic choice.  The optimization and compression enums   *)
(* are forwarded verbatim and are left out.                                *)
(*                                                                         *)
(* Strings whose characters matter (model names) are sequences of one      *)
(* character strings; a command line token is such a sequence too, and a   *)
(* flag is the one element sequence holding the flag.                      *)
(***************************************************************************)
EXTENDS Integers, Sequences, FiniteSets, TLC

\* ------------------------------------------------------------------ bounds
\* Longest model name supplied by a caller.
MaxLen == 2
\* Number of directory names of the temp root.
MaxTmp == 2
\* Exit statuses of the child process are 0..MaxExit.
MaxExit == 1
\* Most keys a report of the tool may lack.
MaxMissing == 1

\* --------------------------------------------------------------- constants
Whitespace == {" ", "\t"}
Alphabet == {"a", "-"} \cup Whitespace

\* Python's None for the name argument (no character of Alphabet).
None == <<"None">>
\* net_name = "network" if name is None
DEFAULT_NAME == <<"network">>

NO_INPUTS == <<"--no-inputs-allocation">>
NO_OUTPUTS == <<"--no-outputs-allocation">>
NAME_FLAG == <<"--name">>
DLL_FLAG == <<"--dll">>

RECURSIVE SeqsUpTo(_)
SeqsUpTo(n) ==
    IF n = 0 THEN {<<>>}
    ELSE LET S == SeqsUpTo(n - 1)
         IN S \cup {Append(s, c) : s \in {x \in S : Len(x) = n - 1}, c \in Alphabet}

\* The strings a caller may pass as name.
Names == SeqsUpTo(MaxLen)
NameArgs == {None} \cup Names

\* The keys analyse() keeps when full_report is unset.
SummaryKeys == {"rom_size", "rom_n_macc", "ram_size", "ram_io_size", "model_size"}
\* The keys the tool may write in network_report.json.
ReportKeys == SummaryKeys \cup {"layers"}

KeyIndex(k) ==
    CASE k = "rom_size" -> 1
      [] k = "rom_n_macc" -> 2
      [] k = "ram_size" -> 3
      [] k = "ram_io_size" -> 4
      [] k = "model_size" -> 5
      [] OTHER -> 6

\* The key sets of the reports the tool may produce.
KeySets ==
    {ReportKeys \ M : M \in {X \in SUBSET ReportKeys : Cardinality(X) <= MaxMissing}}

\* The parsed reports: a key set with one of two valuations (distinct values
\* for distinct keys).
Reports == {[k \in K |-> KeyIndex(k) + 10 * v] : K \in KeySets, v \in {1, 2}}
EmptyReport == [k \in {} |-> 0]

\* Content of network_report.json in the scratch directory.
ReportFiles ==
    {[state |-> "missing", data |-> EmptyReport],
     [state |-> "malformed", data |-> EmptyReport]}
    \cup {[state |-> "json", data |-> r] : r \in Reports}
NoFile == [state |-> "missing", data |-> EmptyReport]

NoReturn == [data |-> EmptyReport, kind |-> "none"]
Returned(r) == [data |-> r, kind |-> "report"]

TmpNames == 1..MaxTmp
ExitCodes == 0..MaxExit
\* No scratch directory: a name outside the temp root.
NoTmp == MaxTmp + 1
\* The child process has not exited: a value outside the exit statuses.
NoExit == MaxExit + 1
NoLib == <<"<no library>">>
NoLookup == <<"<no lookup>">>

\* ---------------------------------------------------------- pure functions

IsSpace(c) == c \in Whitespace

\* str.split() without arguments: the maximal runs of non-whitespace.
RECURSIVE SplitFrom(_, _, _)
SplitFrom(s, i, cur) ==
    IF i > Len(s)
    THEN IF cur = <<>> THEN <<>> ELSE <<cur>>
    ELSE IF IsSpace(s[i])
         THEN IF cur = <<>>
              THEN SplitFrom(s, i + 1, <<>>)
              ELSE <<cur>> \o SplitFrom(s, i + 1, <<>>)
         ELSE SplitFrom(s, i + 1, Append(cur, s[i]))

Split(s) == SplitFrom(s, 1, <<>>)

\* "".join(words)
RECURSIVE Join(_)
Join(words) == IF words = <<>> THEN <<>> ELSE Head(words) \o Join(Tail(words))

\* s.replace("-", "_")
ReplaceHyphen(s) == [i \in 1..Len(s) |-> IF s[i] = "-" THEN "_" ELSE s[i]]

\* Faulty variant: the hyphens are kept.
Sanitize_NoReplace(n) == Join(Split(n))

\* name = "".join(name.split()).replace("-", "_")
Sanitize(n) == ReplaceHyphen(Join(Split(n)))

\* Python truthiness of the name argument: `if name:`
Truthy(n) == n # None /\ n # <<>>

\* The rebound local `name` after the `if name:` block of generate().
LocalName(n) == IF Truthy(n) THEN Sanitize(n) ELSE n

\* io_options of analyse() and generate()
AllocOptions(a) ==
    (IF ~a.allocate_inputs THEN <<NO_INPUTS>> ELSE <<>>)
    \o (IF ~a.allocate_outputs THEN <<NO_OUTPUTS>> ELSE <<>>)

IoOptions(a) ==
    IF a.action = "analyse"
    THEN AllocOptions(a)
    ELSE AllocOptions(a)
         \o (IF Truthy(a.name) THEN <<NAME_FLAG, Sanitize(a.name)>> ELSE <<>>)
         \o (IF a.dll THEN <<DLL_FLAG>> ELSE <<>>)

\* net_name = "network" if name is None else name
NetName(n) == IF n = None THEN DEFAULT_NAME ELSE n

Has(io, tok) == \E i \in 1..Len(io) : io[i] = tok

\* The model name the tool runs with: the token after --name, else its default.
ToolName(io) ==
    IF \E i \in 1..(Len(io) - 1) : io[i] = NAME_FLAG
    THEN io[(CHOOSE i \in 1..(Len(io) - 1) : io[i] = NAME_FLAG) + 1]
    ELSE DEFAULT_NAME

\* Faulty variant: the whole report is returned.
Project_Full(r) == r

\* {key: report[key] for key in [...]}
Project(r) == [k \in SummaryKeys |-> r[k]]

\* Faulty variant: the early return is never taken.
Exists_Never(e) == FALSE

\* EXE_PATH.exists()
Exists(e) == e # "absent"

\* Faulty variant: the directory is not made.
MkdirParents_Noop(d) == d

\* EXE_PATH.parent.mkdir(exist_ok=True, parents=True)
MkdirParents(d) == TRUE

\* Faulty variant: check=False, the exit status is ignored.
CheckRaises_Off(code) == FALSE

\* subprocess.run(..., check=True) raises CalledProcessError
CheckRaises(code) == code # 0

\* tempfile.mkdtemp: a name that does not exist yet
Mkdtemp(root) == TmpNames \ root

\* Faulty variant: the directory is removed on normal exit only.
ExitTmp_LeakOnError(root, d, raised) == IF raised THEN root ELSE root \ {d}

\* TemporaryDirectory.__exit__: the tree is removed, exception or not
ExitTmp(root, d, raised) == root \ {d}

\* argparse action="store_true" with a default
StoreTrue(present, default) == IF present THEN TRUE ELSE default

CliFlags == {"--allocate-inputs", "--allocate-outputs", "--full-report"}
CommandLines ==
    [action : {"analyse", "generate"}, name : NameArgs, flags : SUBSET CliFlags]

\* vars(parser.parse_args()) and the pops of run(), as the arguments of the call
ParseArgs(cl) ==
    [allocate_inputs |-> StoreTrue("--allocate-inputs" \in cl.flags, TRUE),
     allocate_outputs |-> StoreTrue("--allocate-outputs" \in cl.flags, TRUE),
     action |-> cl.action,
     name |-> IF cl.action = "generate" THEN cl.name ELSE None,
     dll |-> FALSE,
     full_report |-> IF cl.action = "analyse"
                     THEN StoreTrue("--full-report" \in cl.flags, FALSE)
                     ELSE FALSE]

\* Files in the output directory
SrcFile(n) == [kind |-> "src", name |-> n]
LibFile(n) == [kind |-> "lib", name |-> n]

VARIABLES
    \* the install tree under ASSET_PATH
    installDir,     \* EXE_PATH.parent exists
    archive,        \* content of stedgeai.7z: none, partial, errorpage, corrupt, valid
    exe,            \* the file at EXE_PATH: absent, exec, noexec
    otherFiles,     \* other archive members were extracted
    \* the temp root
    tmpRoot,        \* the directories that exist in it
    foreign,        \* those made by other calls and programs
    \* the requested output directory
    outDir,
    \* the call in progress
    pc, args, ioOptions, name, scratch, scratchReport, scratchLib, exitCode,
    response, locPath, opened, report, lookup, result, ret, before

install == <<installDir, archive, exe, otherFiles>>
tmp == <<tmpRoot, foreign>>
locals == <<args, ioOptions, name, scratch, scratchReport, scratchLib, exitCode,
            response, locPath, opened, report, lookup, result, ret, before>>
vars == <<installDir, archive, exe, otherFiles, tmpRoot, foreign, outDir, pc,
          args, ioOptions, name, scratch, scratchReport, scratchLib, exitCode,
          response, locPath, opened, report, lookup, result, ret, before>>

Snapshot ==
    [installDir |-> installDir, archive |-> archive, exe |-> exe,
     otherFiles |-> otherFiles, outDir |-> outDir]

NoArgs ==
    [allocate_inputs |-> TRUE, allocate_outputs |-> TRUE, action |-> "none",
     name |-> None, dll |-> FALSE, full_report |-> FALSE]

Init ==
    /\ \/ installDir = FALSE /\ archive = "none" /\ exe = "absent" /\ otherFiles = FALSE
       \/ installDir = TRUE /\ archive = "valid" /\ exe = "exec" /\ otherFiles = TRUE
    /\ foreign = {}
    /\ tmpRoot = foreign
    /\ outDir = {}
    /\ pc = "idle"
    /\ args = NoArgs
    /\ ioOptions = <<>>
    /\ name = None
    /\ scratch = NoTmp
    /\ scratchReport = NoFile
    /\ scratchLib = NoLib
    /\ exitCode = NoExit
    /\ response = "none"
    /\ locPath = "none"
    /\ opened = FALSE
    /\ report = EmptyReport
    /\ lookup = NoLookup
    /\ result = "none"
    /\ ret = NoReturn
    /\ before = Snapshot

\* ----------------------------------------------------------------- actions

\* A call starts.  The install tree and the temp root are as the last call
\* left them; output_dir names a directory that is empty so far.
StartCall ==
    /\ pc' = "locate"
    /\ name' = args'.name
    /\ outDir' = {}
    /\ before' = [Snapshot EXCEPT !.outDir = {}]
    /\ UNCHANGED <<install, tmp, ioOptions, scratch, scratchReport, scratchLib,
                   exitCode, response, locPath, opened, report, lookup, result, ret>>

\* analyse(model_path, allocate_inputs, allocate_outputs, full_report, ...)
CallAnalyse ==
    /\ pc = "idle"
    /\ \E ai \in BOOLEAN, ao \in BOOLEAN, fr \in BOOLEAN :
        args' = [allocate_inputs |-> ai, allocate_outputs |-> ao,
                 action |-> "analyse", name |-> None, dll |-> FALSE,
                 full_report |-> fr]
    /\ StartCall

\* generate(model_path, allocate_inputs, allocate_outputs, ..., name, output_dir, dll)
CallGenerate ==
    /\ pc = "idle"
    /\ \E ai \in BOOLEAN, ao \in BOOLEAN, n \in NameArgs, d \in BOOLEAN :
        args' = [allocate_inputs |-> ai, allocate_outputs |-> ao,
                 action |-> "generate", name |-> n, dll |-> d,
                 full_report |-> FALSE]
    /\ StartCall

\* run(): the command line is parsed and dispatched to analyse or generate
RunCli ==
    /\ pc = "idle"
    /\ \E cl \in CommandLines : args' = ParseArgs(cl)
    /\ StartCall

\* The call ends: the exception or the return value reaches the caller.
Finish(res, r) ==
    /\ pc' = "done"
    /\ result' = res
    /\ ret' = r

\* _check_and_download_executable, up to the HTTP request
CheckExecutable ==
    /\ pc = "locate"
    /\ IF Exists(exe)
       THEN /\ pc' = "options"
            /\ locPath' = "present"
            /\ UNCHANGED installDir
       ELSE /\ pc' = "download"
            /\ locPath' = "absent"
            /\ installDir' = MkdirParents(installDir)
    /\ UNCHANGED <<archive, exe, otherFiles, tmp, outDir, args, ioOptions, name,
                   scratch, scratchReport, scratchLib, exitCode, response, opened,
                   report, lookup, result, ret, before>>

\* _download: requests.get, then the body is written to stedgeai.7z
Download ==
    /\ pc = "download"
    /\ \E r \in {"connfail", "streamfail", "httperror", "ok"} :
        /\ response' = r
        /\ \/ /\ r = "connfail"         \* requests.get raises: the file is not opened
              /\ Finish("download_error", NoReturn)
              /\ UNCHANGED archive
           \/ /\ r = "streamfail"       \* iter_content raises after some chunks
              /\ Finish("download_error", NoReturn)
              /\ archive' = "partial"
           \/ /\ r = "httperror"        \* the status is not looked at: the body is kept
              /\ archive' = "errorpage"
              /\ pc' = "extract"
              /\ UNCHANGED <<result, ret>>
           \/ /\ r = "ok"
              /\ archive' \in {"valid", "corrupt"}
              /\ pc' = "extract"
              /\ UNCHANGED <<result, ret>>
    /\ UNCHANGED <<installDir, exe, otherFiles, tmp, outDir, args, ioOptions, name,
                   scratch, scratchReport, scratchLib, exitCode, locPath, opened,
                   report, lookup, before>>

\* py7zr.SevenZipFile(AR_PATH).extractall(OUT_PATH)
Extract ==
    /\ pc = "extract"
    /\ \/ /\ archive \in {"errorpage", "partial"}   \* no 7z signature: open raises
          /\ Finish("extract_error", NoReturn)
          /\ UNCHANGED <<exe, otherFiles, locPath>>
       \/ /\ archive = "corrupt"        \* raises after some members were written
          /\ Finish("extract_error", NoReturn)
          /\ exe' \in {exe, "exec", "noexec"}
          /\ otherFiles' \in {otherFiles, TRUE}
          /\ UNCHANGED locPath
       \/ /\ archive = "valid"          \* what lands at EXE_PATH is the archive's
          /\ exe' \in {"absent", "exec", "noexec"}
          /\ otherFiles' = TRUE
          /\ pc' = "options"
          /\ locPath' = "installed"
          /\ UNCHANGED <<result, ret>>
    /\ UNCHANGED <<installDir, archive, tmp, outDir, args, ioOptions, name, scratch,
                   scratchReport, scratchLib, exitCode, response, opened, report,
                   lookup, before>>

\* The flag list is built and the TemporaryDirectory is entered.
EnterScratch ==
    /\ pc = "options"
    /\ ioOptions' = IoOptions(args)
    /\ name' = IF args.action = "generate" THEN LocalName(args.name) ELSE name
    /\ \E t \in Mkdtemp(tmpRoot) :
        /\ scratch' = t
        /\ tmpRoot' = tmpRoot \cup {t}
    /\ pc' = "invoke"
    /\ UNCHANGED <<install, foreign, outDir, args, scratchReport, scratchLib,
                   exitCode, response, locPath, opened, report, lookup, result,
                   ret, before>>

\* Leaving the with block: the scratch directory and what it holds are removed.
LeaveScratch(raised) ==
    /\ tmpRoot' = ExitTmp(tmpRoot, scratch, raised)
    /\ scratch' = NoTmp
    /\ scratchReport' = NoFile
    /\ scratchLib' = NoLib
    /\ UNCHANGED foreign

\* subprocess.run([EXE_PATH, ...] + io_options, check=True)
Invoke ==
    /\ pc = "invoke"
    /\ \/ /\ exe # "exec"               \* no such file, or permission denied
          /\ Finish("launch_error", NoReturn)
          /\ LeaveScratch(TRUE)
          /\ UNCHANGED <<exitCode, outDir>>
       \/ /\ exe = "exec"
          /\ \E code \in ExitCodes :
              /\ exitCode' = code
              \* the tool writes its files into -o: the scratch directory for
              \* analyse, output_dir for generate
              /\ IF args.action = "generate"
                 THEN \E wrote \in BOOLEAN :
                        outDir' = IF wrote
                                  THEN outDir \cup {SrcFile(ToolName(ioOptions))}
                                  ELSE outDir
                 ELSE UNCHANGED outDir
              /\ IF CheckRaises(code)
                 THEN /\ Finish("process_error", NoReturn)
                      /\ LeaveScratch(TRUE)
                 ELSE IF args.action = "analyse"
                 THEN /\ pc' = "read"
                      /\ scratchReport' \in ReportFiles
                      /\ UNCHANGED <<tmp, scratch, scratchLib, result, ret>>
                 ELSE IF args.dll
                 THEN /\ pc' = "copy"
                      /\ scratchLib' \in {NoLib, ToolName(ioOptions), DEFAULT_NAME}
                      /\ UNCHANGED <<tmp, scratch, scratchReport, result, ret>>
                 ELSE /\ Finish("ok", NoReturn)
                      /\ LeaveScratch(FALSE)
    /\ UNCHANGED <<install, args, ioOptions, name, response, locPath, opened,
                   report, lookup, before>>

\* analyse(): network_report.json is opened and parsed, the block is left and
\* the report or its summary is returned.
ReadReport ==
    /\ pc = "read"
    /\ opened' = TRUE
    /\ IF scratchReport.state # "json"
       THEN /\ Finish("report_error", NoReturn)
            /\ LeaveScratch(TRUE)
            /\ UNCHANGED report
       ELSE /\ report' = scratchReport.data
            /\ LeaveScratch(FALSE)
            /\ IF args.full_report
               THEN Finish("ok", Returned(scratchReport.data))
               ELSE IF SummaryKeys \subseteq DOMAIN scratchReport.data
               THEN Finish("ok", Returned(Project(scratchReport.data)))
               ELSE Finish("key_error", NoReturn)
    /\ UNCHANGED <<install, outDir, args, ioOptions, name, exitCode, response,
                   locPath, lookup, before>>

\* generate(): shutil.copyfile of the built library to output_dir
CopyDll ==
    /\ pc = "copy"
    /\ lookup' = NetName(name)
    /\ IF scratchLib = NetName(name)
       THEN /\ outDir' = outDir \cup {LibFile(NetName(name))}
            /\ Finish("ok", NoReturn)
            /\ LeaveScratch(FALSE)
       ELSE /\ Finish("copy_error", NoReturn)
            /\ LeaveScratch(TRUE)
            /\ UNCHANGED outDir
    /\ UNCHANGED <<install, args, ioOptions, name, exitCode, response, locPath,
                   opened, report, before>>

\* The caller has the result or the exception; the frame of the call is gone.
Return ==
    /\ pc = "done"
    /\ pc' = "idle"
    /\ args' = NoArgs
    /\ ioOptions' = <<>>
    /\ name' = None
    /\ exitCode' = NoExit
    /\ response' = "none"
    /\ locPath' = "none"
    /\ opened' = FALSE
    /\ report' = EmptyReport
    /\ lookup' = NoLookup
    /\ result' = "none"
    /\ ret' = NoReturn
    /\ before' = Snapshot
    /\ UNCHANGED <<install, tmp, outDir, scratch, scratchReport, scratchLib>>

\* Another call or program makes a directory in the temp root.
ForeignCreate ==
    /\ Cardinality(foreign) < MaxTmp - 1
    /\ \E t \in Mkdtemp(tmpRoot) :
        /\ tmpRoot' = tmpRoot \cup {t}
        /\ foreign' = foreign \cup {t}
    /\ UNCHANGED <<install, outDir, pc, locals>>

\* Another call or program removes its directory.
ForeignRemove ==
    /\ \E t \in foreign :
        /\ tmpRoot' = tmpRoot \ {t}
        /\ foreign' = foreign \ {t}
    /\ UNCHANGED <<install, outDir, pc, locals>>

Next ==
    \/ CallAnalyse
    \/ CallGenerate
    \/ RunCli
    \/ CheckExecutable
    \/ Download
    \/ Extract
    \/ EnterScratch
    \/ Invoke
    \/ ReadReport
    \/ CopyDll
    \/ Return
    \/ ForeignCreate
    \/ ForeignRemove

Spec == Init /\ [][Next]_vars

\* ------------------------------------------------------------------ claims

\* C1: once the executable exists at EXE_PATH, no step of any call starts a
\* download or an extraction, makes a request or changes the install tree.
C1_NoReinstall ==
    [][exe # "absent" =>
        /\ install' = install
        /\ pc' \notin {"download", "extract"}
        /\ response' \in {response, "none"}]_vars

\* A call found the executable in place and ran to its end without a request.
C1_Witness ==
    /\ pc = "done"
    /\ locPath = "present"
    /\ result = "ok"
    /\ response = "none"
    /\ <<installDir, archive, exe, otherFiles>>
         = <<before.installDir, before.archive, before.exe, before.otherFiles>>

\* C2: when the request for the archive does not succeed (connection failure
\* or non-success HTTP response) the call ends with a download error, so that
\* nothing is extracted and the tool is not invoked.
C2_DownloadErrorOnFailure ==
    response \in {"connfail", "httperror"} =>
        pc = "done" /\ result = "download_error"

\* C3: at the moment the tool is invoked the locator has completed and the
\* binary is present at EXE_PATH and executable.
C3_ExecutableAtInvocation ==
    pc = "invoke" => locPath \in {"present", "installed"} /\ exe = "exec"

\* C4: the report is opened and the library looked up only after an exit
\* status of zero; after a non-zero status the call fails, returns no report,
\* opens no report and copies nothing.
C4_NonZeroExitFails ==
    /\ pc \in {"read", "copy"} => exitCode = 0
    /\ (opened \/ lookup # NoLookup) => exitCode = 0
    /\ (pc = "done" /\ result = "ok") => exitCode = 0
    /\ (pc = "done" /\ exitCode \notin {0, NoExit}) =>
          /\ result = "process_error"
          /\ ret = NoReturn
          /\ ~opened
          /\ lookup = NoLookup
          /\ \A f \in outDir : f.kind # "lib"

\* generate(dll=True) ended after the tool exited with a non-zero status.
C4_Witness ==
    /\ pc = "done"
    /\ args.action = "generate"
    /\ args.dll
    /\ exitCode \in ExitCodes \ {0}
    /\ result = "process_error"

C6_LibraryNamedAsTool ==
    lookup # NoLookup =>
        /\ lookup = ToolName(ioOptions)
        /\ result = "ok" => LibFile(ToolName(ioOptions)) \in outDir
        /\ result \in {"ok", "copy_error"}

C7Keys == {"rom_size", "rom_n_macc", "ram_size", "ram_io_size", "model_size"}

\* C7: with full_report unset analyse() returns exactly the five summary
\* keys with the report's values and fails when one is missing; with
\* full_report set it returns the parsed report unchanged.
C7_Projection ==
    (pc = "done" /\ args.action = "analyse" /\ result \in {"ok", "key_error"}) =>
        IF args.full_report
        THEN result = "ok" /\ ret = Returned(report)
        ELSE IF C7Keys \subseteq DOMAIN report
        THEN /\ result = "ok"
             /\ ret.kind = "report"
             /\ DOMAIN ret.data = C7Keys
             /\ \A k \in C7Keys : ret.data[k] = report[k]
        ELSE result = "key_error" /\ ret = NoReturn

\* A summary was returned from a report that held a key more.
C7_Witness ==
    /\ pc = "done"
    /\ args.action = "analyse"
    /\ ~args.full_report
    /\ result = "ok"
    /\ "layers" \in DOMAIN report
    /\ "layers" \notin DOMAIN ret.data

\* C8: while the tool runs and its output is read, the call holds a scratch
\* directory that exists and is none of the directories other calls made;
\* outside that block, on every exit path, no directory of the call is left
\* in the temp root.
C8_ScratchScoped ==
    /\ pc \in {"invoke", "read", "copy"} =>
          /\ scratch \in tmpRoot
          /\ scratch \notin foreign
    /\ pc \notin {"invoke", "read", "copy"} =>
          /\ scratch = NoTmp
          /\ tmpRoot = foreign

\* A call failed on the missing library while another directory was in the
\* temp root: that one is still there, the call's is gone.
C8_Witness ==
    /\ pc = "done"
    /\ result = "copy_error"
    /\ foreign # {}
    /\ tmpRoot = foreign

\* The supplied name with its whitespace dropped and its hyphens replaced.
C9Flat(n) ==
    LET kept == SelectSeq(n, LAMBDA c : c \notin Whitespace)
    IN [i \in 1..Len(kept) |-> IF kept[i] = "-" THEN "_" ELSE kept[i]]

C10_AllocationToggles ==
    pc = "invoke" =>
        /\ Has(ioOptions, NO_INPUTS) <=> ~args.allocate_inputs
        /\ Has(ioOptions, NO_OUTPUTS) <=> ~args.allocate_outputs
        /\ \E cl \in CommandLines : ParseArgs(cl).allocate_inputs
        /\ \E cl \in CommandLines : ~ParseArgs(cl).allocate_inputs
        /\ \E cl \in CommandLines : ParseArgs(cl).allocate_outputs
        /\ \E cl \in CommandLines : ~ParseArgs(cl).allocate_outputs

====
